---- MODULE Spec2Model ----
(***************************************************************************)
(* pymzn/mzn/output.py: the solver-output parser (SolutionParser) and the  *)
(* lazy solution stream (Solutions).                                       *)
(*                                                                         *)
(* A line of text is a sequence of one-character strings, so that          *)
(* str.strip() and str.join() are computed and not assumed.  A solution    *)
(* record is [kind, of]: kind "str" for the raw body (output_mode other    *)
(* than 'dict'), kind "dict" for the mapping dzn2dict makes of the body.   *)
(***************************************************************************)
EXTENDS Integers, Sequences, FiniteSets

\* ------------------------------------------------------------------ bounds
\* lines one run of the solver process prints
MaxLines == 3

\* ----------------------------------------------------------- class Status
COMPLETE == 0
INCOMPLETE == 1
UNKNOWN_ST == 2
UNSATISFIABLE_ST == 3
UNBOUNDED_ST == 4
UNSATorUNBOUNDED_ST == 5
ERROR_ST == 6

Status == {COMPLETE, INCOMPLETE, UNKNOWN_ST, UNSATISFIABLE_ST, UNBOUNDED_ST,
           UNSATorUNBOUNDED_ST, ERROR_ST}

StatusName(s) ==
    CASE s = COMPLETE -> "COMPLETE"
      [] s = INCOMPLETE -> "INCOMPLETE"
      [] s = UNKNOWN_ST -> "UNKNOWN"
      [] s = UNSATISFIABLE_ST -> "UNSATISFIABLE"
      [] s = UNBOUNDED_ST -> "UNBOUNDED"
      [] s = UNSATorUNBOUNDED_ST -> "UNSATorUNBOUNDED"
      [] OTHER -> "ERROR"

\* ------------------------------------------------- SolutionParser markers
Rep(c, n) == [i \in 1..n |-> c]

SOLN_SEP == Rep("-", 10)
SEARCH_COMPLETE == Rep("=", 10)
UNSATISFIABLE ==
    Rep("=", 5) \o <<"U","N","S","A","T","I","S","F","I","A","B","L","E">>
                \o Rep("=", 5)
UNKNOWN == Rep("=", 5) \o <<"U","N","K","N","O","W","N">> \o Rep("=", 5)
UNBOUNDED == Rep("=", 5) \o <<"U","N","B","O","U","N","D","E","D">> \o Rep("=", 5)
UNSATorUNBOUNDED ==
    Rep("=", 5) \o <<"U","N","S","A","T","o","r","U","N","B","O","U","N","D","E","D">>
                \o Rep("=", 5)
ERROR == Rep("=", 5) \o <<"E","R","R","O","R">> \o Rep("=", 5)

\* ------------------------------------------------------- the process output
\* what proc.readlines() may hand over: the seven markers as printed, a body
\* line, a body line with a blank before it and its line end left on, a
\* separator with its line end, an empty line (its line end alone), and a
\* line of solver telemetry
TELEMETRY == <<"%">>

Lines ==
    { SOLN_SEP, SEARCH_COMPLETE, UNSATISFIABLE, UNKNOWN, UNBOUNDED,
      UNSATorUNBOUNDED, ERROR,
      <<"x">>, <<" ", "y", "\n">>, SOLN_SEP \o <<"\n">>,
      <<"\n">>, TELEMETRY }

\* ------------------------------------------------------------ str methods
\* the white space str.strip() removes, as far as it occurs in Lines
Whitespace == {" ", "\t", "\n", "\r"}

RECURSIVE lstrip(_)
lstrip(s) ==
    IF s # <<>> /\ Head(s) \in Whitespace THEN lstrip(Tail(s)) ELSE s

RECURSIVE rstrip(_)
rstrip(s) ==
    IF s # <<>> /\ s[Len(s)] \in Whitespace
    THEN rstrip(SubSeq(s, 1, Len(s) - 1))
    ELSE s

\* a strip that forgets the right end
strip_left_only(s) == lstrip(s)

strip(s) == rstrip(lstrip(s))

RECURSIVE join(_, _)
join(sep, parts) ==
    IF parts = <<>> THEN <<>>
    ELSE IF Len(parts) = 1 THEN parts[1]
    ELSE parts[1] \o sep \o join(sep, Tail(parts))

NL == <<"\n">>

\* ------------------------------------------- SolutionParser._split_solns
\* a splitter that also flushes the buffer as a body at search-complete
yields_on_complete_too(l) == l = SOLN_SEP \/ l = SEARCH_COMPLETE

\* the line is a solution separator: the generator yields the joined buffer
yields_on(l) == l = SOLN_SEP

\* a splitter that lets only the first terminal marker set the status
new_status_first_wins(l, st) ==
    IF st # INCOMPLETE THEN st
    ELSE IF l = SEARCH_COMPLETE THEN COMPLETE
    ELSE IF l = UNKNOWN THEN UNKNOWN_ST
    ELSE IF l = UNSATISFIABLE THEN UNSATISFIABLE_ST
    ELSE IF l = UNBOUNDED THEN UNBOUNDED_ST
    ELSE IF l = UNSATorUNBOUNDED THEN UNSATorUNBOUNDED_ST
    ELSE IF l = ERROR THEN ERROR_ST
    ELSE st

\* a splitter that takes a separator as the sign that the search goes on
new_status_sep_resets(l, st) ==
    IF l = SOLN_SEP THEN INCOMPLETE
    ELSE IF l = SEARCH_COMPLETE THEN COMPLETE
    ELSE IF l = UNKNOWN THEN UNKNOWN_ST
    ELSE IF l = UNSATISFIABLE THEN UNSATISFIABLE_ST
    ELSE IF l = UNBOUNDED THEN UNBOUNDED_ST
    ELSE IF l = UNSATorUNBOUNDED THEN UNSATorUNBOUNDED_ST
    ELSE IF l = ERROR THEN ERROR_ST
    ELSE st

\* a splitter with the branches of UNKNOWN and UNSATISFIABLE swapped
new_status_swapped(l, st) ==
    IF l = SOLN_SEP THEN st
    ELSE IF l = SEARCH_COMPLETE THEN COMPLETE
    ELSE IF l = UNKNOWN THEN UNSATISFIABLE_ST
    ELSE IF l = UNSATISFIABLE THEN UNKNOWN_ST
    ELSE IF l = UNBOUNDED THEN UNBOUNDED_ST
    ELSE IF l = UNSATorUNBOUNDED THEN UNSATorUNBOUNDED_ST
    ELSE IF l = ERROR THEN ERROR_ST
    ELSE st

\* the marker lines that end a search
TerminalMarkerTexts ==
    {SEARCH_COMPLETE, UNKNOWN, UNSATISFIABLE, UNBOUNDED, UNSATorUNBOUNDED, ERROR}

\* self.status after the stripped line l
new_status(l, st) ==
    IF l = SOLN_SEP THEN st
    ELSE IF l = SEARCH_COMPLETE THEN COMPLETE
    ELSE IF l = UNKNOWN THEN UNKNOWN_ST
    ELSE IF l = UNSATISFIABLE THEN UNSATISFIABLE_ST
    ELSE IF l = UNBOUNDED THEN UNBOUNDED_ST
    ELSE IF l = UNSATorUNBOUNDED THEN UNSATorUNBOUNDED_ST
    ELSE IF l = ERROR THEN ERROR_ST
    ELSE st

\* a splitter without the branch of the ERROR marker: the marker is buffered
new_buffer_buffers_error(l, buf) ==
    IF l = SOLN_SEP THEN <<>>
    ELSE IF l = SEARCH_COMPLETE THEN <<>>
    ELSE IF l \in {UNKNOWN, UNSATISFIABLE, UNBOUNDED, UNSATorUNBOUNDED}
    THEN buf
    ELSE IF l # <<>> THEN Append(buf, l)
    ELSE buf

\* a splitter that leaves the buffer as it is at search-complete
new_buffer_no_reset_on_complete(l, buf) ==
    IF l = SOLN_SEP THEN <<>>
    ELSE IF l \in TerminalMarkerTexts
    THEN buf
    ELSE IF l # <<>> THEN Append(buf, l)
    ELSE buf

\* a splitter that buffers every line that is no marker, the empty one too
new_buffer_keeps_blank(l, buf) ==
    IF l = SOLN_SEP THEN <<>>
    ELSE IF l = SEARCH_COMPLETE THEN <<>>
    ELSE IF l \in {UNKNOWN, UNSATISFIABLE, UNBOUNDED, UNSATorUNBOUNDED, ERROR}
    THEN buf
    ELSE Append(buf, l)

\* _buffer after the stripped line l
new_buffer(l, buf) ==
    IF l = SOLN_SEP THEN <<>>
    ELSE IF l = SEARCH_COMPLETE THEN <<>>
    ELSE IF l \in {UNKNOWN, UNSATISFIABLE, UNBOUNDED, UNSATorUNBOUNDED, ERROR}
    THEN buf
    ELSE IF l # <<>> THEN Append(buf, l)
    ELSE buf

\* one send() into the generator: the line is stripped, then classified
split_solns(buf, st, line) ==
    LET l == strip(line) IN
    [ buffer |-> new_buffer(l, buf),
      status |-> new_status(l, st),
      yields |-> yields_on(l),
      soln   |-> IF yields_on(l) THEN join(NL, buf) ELSE <<>> ]

\* ------------------------------------------------------- outside src/
\* Python's None, where a line is expected
NoLine == <<"None">>

\* the line adapter of the solver (solver.parser().parse_out()): it hands a
\* line on as it is, and drops a line of telemetry (it returns no line)
solver_parse_out(line) == IF line = TELEMETRY THEN NoLine ELSE line

\* pymzn.dzn.dzn2dict: the mapping read from the body
dzn2dict(body) == [kind |-> "dict", of |-> body]

\* the bodies pymzn.dzn.dzn2dict rejects with a ValueError: here, the bodies
\* that hold the line y
dzn2dict_rejects(body) == \E i \in 1..Len(body) : body[i] = "y"

\* ------------------------------------------- SolutionParser._parse_lines
raw_text(body) == [kind |-> "str", of |-> body]

\* one send() into the generator. raises names the exception that leaves
\* it: line.strip() of _split_solns on the None of a dropped line, or the
\* error of dzn2dict; after either the record is not yielded
parse_lines(buf, st, line, omode) ==
    LET a == solver_parse_out(line)
        r == split_solns(buf, st, a) IN
    IF a = NoLine
    THEN [ buffer |-> buf, status |-> st, yields |-> FALSE, body |-> <<>>,
           soln |-> raw_text(<<>>), raises |-> "AttributeError" ]
    ELSE [ buffer |-> r.buffer,
           status |-> r.status,
           yields |-> r.yields,
           body   |-> r.soln,
           soln   |-> IF omode = "dict" THEN dzn2dict(r.soln)
                                        ELSE raw_text(r.soln),
           raises |-> IF r.yields /\ omode = "dict" /\ dzn2dict_rejects(r.soln)
                      THEN "ValueError" ELSE "" ]

\* ------------------------------------------------------------ queue.Queue
\* a channel that hands out the newest record first
put_lifo(q, soln) == <<soln>> \o q

put(q, soln) == Append(q, soln)

\* a channel whose get takes the newest record
get_nowait_newest(q) ==
    [soln |-> q[Len(q)], queue |-> SubSeq(q, 1, Len(q) - 1)]

get_nowait(q) == [soln |-> Head(q), queue |-> Tail(q)]

\* --------------------------------------------------------- class Solutions
\* a drain that stores what it took in place of what was stored
fetch_all_overwrites(keep, q, solns, n) ==
    [ queue |-> <<>>,
      solns |-> IF keep /\ q # <<>> THEN q ELSE solns,
      n     |-> n + Len(q) ]

\* _fetch run to its end (_fetch_all): every queued record is taken, kept
\* when _keep, and counted
fetch_all(keep, q, solns, n) ==
    [ queue |-> <<>>,
      solns |-> IF keep THEN solns \o q ELSE solns,
      n     |-> n + Len(q) ]

\* an __iter__ that hands out the generator of the drain also when keeping
iter_keep_fetched(solns, fetched) == fetched

\* what iter(self._solns) walks after the drain, given the records the
\* drain has just taken
iter_keep(solns, fetched) == solns

\* self._solns[key] of a list: 0-based, negative keys count from the end
list_getitem(solns, key) ==
    IF 0 <= key /\ key < Len(solns)
    THEN [val |-> <<solns[key + 1]>>, err |-> ""]
    ELSE IF key < 0 /\ -key <= Len(solns)
    THEN [val |-> <<solns[Len(solns) + key + 1]>>, err |-> ""]
    ELSE [val |-> <<>>, err |-> "IndexError"]

\* a __getitem__ that drains before it looks at _keep
getitem_drains_first(keep, q, solns, n, key) ==
    LET f == fetch_all(keep, q, solns, n)
        g == list_getitem(f.solns, key) IN
    IF ~keep
    THEN [queue |-> f.queue, solns |-> f.solns, n |-> f.n,
          val |-> <<>>, err |-> "RuntimeError"]
    ELSE [queue |-> f.queue, solns |-> f.solns, n |-> f.n,
          val |-> g.val, err |-> g.err]

\* __getitem__: the new queue, storage and count, and the outcome
getitem(keep, q, solns, n, key) ==
    IF ~keep
    THEN [queue |-> q, solns |-> solns, n |-> n,
          val |-> <<>>, err |-> "RuntimeError"]
    ELSE LET f == fetch_all(keep, q, solns, n)
             g == list_getitem(f.solns, key) IN
         [queue |-> f.queue, solns |-> f.solns, n |-> f.n,
          val |-> g.val, err |-> g.err]

\* a rendering that takes UNKNOWN for a status with solutions
shows_solns_upto_unknown(keep, st) == keep /\ st <= 2

\* __repr__ / __str__ show the records (after a drain) or the status name
shows_solns(keep, st) == keep /\ st < 2

\* ------------------------------------------------------------------ state
VARIABLES
    output_mode,    \* SolutionParser.output_mode: "dict" or "raw"
    parser_status,  \* SolutionParser.status
    buffer,         \* _buffer of the running _split_solns generator
    read,           \* the lines proc.readlines() has handed over in this run
    emitted,        \* the bodies _split_solns has yielded in this run
    entry,          \* "parse": parse(proc); "collect": _collect(solns, proc)
                    \* on a Solutions the caller made and already holds
    pc,             \* "running": _collect is in its loop; "done": it
                    \* returned; "raised": an exception left it
    exc,            \* the exception that left _collect ("" when none did)
    queue,          \* Solutions._queue
    keep,           \* Solutions._keep
    solns,          \* Solutions._solns (<<>> also stands for None)
    n_solns,        \* Solutions._n_solns
    status,         \* Solutions.status
    statistics,     \* Solutions.statistics
    stderr,         \* Solutions.stderr
    gen,            \* a generator _fetch() made by a non-keeping __iter__
                    \* is live (it has not raised StopIteration yet)
    ret             \* the outcome of the consumer's call, when the last step
                    \* was one

vars == << output_mode, parser_status, buffer, read, emitted, entry, pc, exc,
           queue, keep, solns, n_solns, status, statistics, stderr, gen, ret >>

parser_vars == << output_mode, parser_status, buffer, read, emitted, entry,
                  pc, exc >>

NoRet == [op |-> "none", val |-> <<>>, err |-> "", n |-> 0, name |-> ""]

\* Solutions.__init__
NewSolutions(k) ==
    /\ queue' = <<>>
    /\ keep' = k
    /\ solns' = <<>>
    /\ n_solns' = 0
    /\ status' = INCOMPLETE
    /\ statistics' = "None"
    /\ stderr' = "None"
    /\ gen' = FALSE
    /\ ret' = NoRet

\* how a run starts: parse() makes Solutions(Queue()), which keeps; a caller
\* of _collect() has made the Solutions itself, keeping or not
Entries == {<<"parse", TRUE>>, <<"collect", TRUE>>, <<"collect", FALSE>>}

\* SolutionParser.__init__, then the first parse()/_collect() begins
Init ==
    /\ output_mode \in {"dict", "raw"}
    /\ parser_status = INCOMPLETE
    /\ buffer = <<>>
    /\ read = <<>>
    /\ emitted = <<>>
    /\ \E e \in Entries : entry = e[1] /\ keep = e[2]
    /\ pc = "running"
    /\ exc = ""
    /\ queue = <<>>
    /\ solns = <<>>
    /\ n_solns = 0
    /\ status = INCOMPLETE
    /\ statistics = "None"
    /\ stderr = "None"
    /\ gen = FALSE
    /\ ret = NoRet

\* ------------------------------------------------------------- producer
\* _parse / _collect: one line of proc.readlines() goes through
\* _parse_lines, and a yielded record is put on the queue
ReadLine(line) ==
    /\ pc = "running"
    /\ Len(read) < MaxLines
    /\ LET r == parse_lines(buffer, parser_status, line, output_mode) IN
        /\ read' = Append(read, line)
        /\ buffer' = r.buffer
        /\ parser_status' = r.status
        /\ emitted' = IF r.yields THEN Append(emitted, r.body) ELSE emitted
        /\ queue' = IF r.yields /\ r.raises = ""
                     THEN put(queue, r.soln) ELSE queue
        /\ exc' = r.raises
        /\ pc' = IF r.raises = "" THEN pc ELSE "raised"
    /\ ret' = NoRet
    /\ UNCHANGED << output_mode, entry, keep, solns, n_solns, status,
                    statistics, stderr, gen >>

\* _collect after the loop: proc.readlines() is exhausted
EndOfOutput ==
    /\ pc = "running"
    /\ status' = parser_status
    /\ statistics' = "stats"
    /\ stderr' = "stderr_data"
    /\ pc' = "done"
    /\ ret' = NoRet
    /\ UNCHANGED << output_mode, parser_status, buffer, read, emitted, entry,
                    exc, queue, keep, solns, n_solns, gen >>

\* the same parser is handed another process: a new Solutions, a new
\* _split_solns generator (its _buffer is a local), the same self.status
NewRun(e) ==
    /\ pc \in {"done", "raised"}
    /\ exc' = ""
    /\ entry' = e[1]
    /\ NewSolutions(e[2])
    /\ pc' = "running"
    /\ buffer' = <<>>
    /\ read' = <<>>
    /\ emitted' = <<>>
    /\ UNCHANGED << output_mode, parser_status >>

\* ------------------------------------------------------------- consumer
\* the caller of parse() holds the Solutions once parse() has returned; the
\* caller of _collect() holds it from the start
Holds == entry = "collect" \/ pc = "done"

\* __len__
Length ==
    /\ Holds
    /\ ret' = [NoRet EXCEPT !.op = "len", !.n = n_solns]
    /\ UNCHANGED << parser_vars, queue, keep, solns, n_solns, status,
                    statistics, stderr, gen >>

\* __iter__ when _keep: drain, then walk the storage
Iterate ==
    /\ Holds
    /\ keep
    /\ LET f == fetch_all(keep, queue, solns, n_solns) IN
        /\ queue' = f.queue
        /\ solns' = f.solns
        /\ n_solns' = f.n
        /\ ret' = [NoRet EXCEPT !.op = "iter", !.val = iter_keep(f.solns, queue)]
    /\ UNCHANGED << parser_vars, keep, status, statistics, stderr, gen >>

\* __iter__ when not _keep: the generator _fetch() is made, nothing runs yet
IterateLazy ==
    /\ Holds
    /\ ~keep
    /\ gen' = TRUE
    /\ ret' = [NoRet EXCEPT !.op = "gen"]
    /\ UNCHANGED << parser_vars, queue, keep, solns, n_solns, status,
                    statistics, stderr >>

\* next() on the generator _fetch(): one record, or StopIteration
FetchNext ==
    /\ Holds
    /\ gen
    /\ IF queue # <<>>
       THEN LET g == get_nowait(queue) IN
            /\ queue' = g.queue
            /\ solns' = IF keep THEN Append(solns, g.soln) ELSE solns
            /\ n_solns' = n_solns + 1
            /\ gen' = gen
            /\ ret' = [NoRet EXCEPT !.op = "next", !.val = <<g.soln>>]
       ELSE /\ gen' = FALSE
            /\ ret' = [NoRet EXCEPT !.op = "next", !.err = "StopIteration"]
            /\ UNCHANGED << queue, solns, n_solns >>
    /\ UNCHANGED << parser_vars, keep, status, statistics, stderr >>

\* __getitem__
GetItem(key) ==
    /\ Holds
    /\ LET g == getitem(keep, queue, solns, n_solns, key) IN
        /\ queue' = g.queue
        /\ solns' = g.solns
        /\ n_solns' = g.n
        /\ ret' = [NoRet EXCEPT !.op = "getitem", !.val = g.val,
                                !.err = g.err]
    /\ UNCHANGED << parser_vars, keep, status, statistics, stderr, gen >>

\* __repr__ / __str__
Render ==
    /\ Holds
    /\ IF shows_solns(keep, status)
       THEN LET f == fetch_all(keep, queue, solns, n_solns) IN
            /\ queue' = f.queue
            /\ solns' = f.solns
            /\ n_solns' = f.n
            /\ ret' = [NoRet EXCEPT !.op = "render", !.val = f.solns]
       ELSE /\ ret' = [NoRet EXCEPT !.op = "render",
                                    !.name = StatusName(status)]
            /\ UNCHANGED << queue, solns, n_solns >>
    /\ UNCHANGED << parser_vars, keep, status, statistics, stderr, gen >>

\* the keys __getitem__ is tried with: the first record, the last, and one
\* past a storage of one record
Keys == {-1, 0, 1}

Next ==
    \/ \E line \in Lines : ReadLine(line)
    \/ EndOfOutput
    \/ \E e \in Entries : NewRun(e)
    \/ Length
    \/ Iterate
    \/ IterateLazy
    \/ FetchNext
    \/ \E key \in Keys : GetItem(key)
    \/ Render

Spec == Init /\ [][Next]_vars

TypeOK ==
    /\ parser_status \in Status
    /\ status \in Status
    /\ pc \in {"running", "done", "raised"}
    /\ (pc = "raised") = (exc # "")
    /\ Len(read) <= MaxLines

\* ------------------------------------------------ what the output contains
\* (read off the lines themselves, not off the splitter)
NonBlank(c) == c \notin Whitespace

\* a line without its white space; no line of Lines has white space inside
Trimmed(line) == SelectSeq(line, NonBlank)

TerminalMarkers ==
    {SEARCH_COMPLETE, UNKNOWN, UNSATISFIABLE, UNBOUNDED, UNSATorUNBOUNDED, ERROR}

Markers == {SOLN_SEP} \cup TerminalMarkers

StatusOfMarker(m) ==
    CASE m = SEARCH_COMPLETE -> COMPLETE
      [] m = UNKNOWN -> UNKNOWN_ST
      [] m = UNSATISFIABLE -> UNSATISFIABLE_ST
      [] m = UNBOUNDED -> UNBOUNDED_ST
      [] m = UNSATorUNBOUNDED -> UNSATorUNBOUNDED_ST
      [] OTHER -> ERROR_ST

\* positions of the separator lines and of the terminal marker lines
SepIdx(ls) == {i \in 1..Len(ls) : Trimmed(ls[i]) = SOLN_SEP}
TermIdx(ls) == {i \in 1..Len(ls) : Trimmed(ls[i]) \in TerminalMarkers}

Max(S) == CHOOSE x \in S : \A y \in S : y <= x
Min(S) == CHOOSE x \in S : \A y \in S : x <= y

RECURSIVE Ascending(_)
Ascending(S) == IF S = {} THEN <<>> ELSE <<Min(S)>> \o Ascending(S \ {Min(S)})

\* the body due at the separator at position j: the trimmed body lines since
\* the last separator or search-complete marker, joined by newline
BodyAt(ls, j) ==
    LET resets == {i \in 1..(j - 1) :
                      Trimmed(ls[i]) \in {SOLN_SEP, SEARCH_COMPLETE}}
        start == IF resets = {} THEN 0 ELSE Max(resets)
        idx == Ascending({i \in (start + 1)..(j - 1) :
                      Trimmed(ls[i]) \notin Markers \cup {<<>>}})
    IN join(NL, [k \in 1..Len(idx) |-> Trimmed(ls[idx[k]])])

ExpectedBodies(ls) ==
    LET seps == Ascending(SepIdx(ls)) IN
    [k \in 1..Len(seps) |-> BodyAt(ls, seps[k])]

Front(ls) == SubSeq(ls, 1, Len(ls) - 1)

\* ------------------------------------------------------------------- C1
\* body lines only, then one separator line
OnlyBodyThenSep(ls, IsBody(_)) ==
    /\ Len(ls) >= 1
    /\ Trimmed(ls[Len(ls)]) = SOLN_SEP
    /\ \A i \in 1..(Len(ls) - 1) : IsBody(ls[i])

\* a body line: not a marker and not empty, also once trimmed
IsBodyTrimmed(line) == Trimmed(line) \notin Markers /\ Trimmed(line) # <<>>

\* C1 as stated: an output of non-marker, non-empty lines followed by one
\* separator makes the splitter emit exactly one body, those lines joined by
\* newline in their order.
C1_AsStated ==
    OnlyBodyThenSep(read, IsBodyTrimmed)
        => emitted = << join(NL, Front(read)) >>

\* C1 amended: an output of lines that are neither markers nor empty once
\* trimmed, followed by one separator line, makes the splitter emit exactly
\* one body: those lines, each trimmed of the white space around it, joined
\* by newline in their order.
C1_OneBodyOfTrimmedLines ==
    OnlyBodyThenSep(read, IsBodyTrimmed)
        => emitted = << join(NL, [i \in 1..(Len(read) - 1) |-> Trimmed(read[i])]) >>

\* two different body lines, one of them padded, then the separator
C1_Witness ==
    /\ OnlyBodyThenSep(read, IsBodyTrimmed)
    /\ Len(read) = 3
    /\ Trimmed(read[1]) # Trimmed(read[2])
    /\ \E i \in 1..2 : read[i] # Trimmed(read[i])
    /\ Len(emitted) = 1

\* ------------------------------------------------------------------- C2
\* C2: iterating the Solutions parse() returned, in raw-text mode, yields one
\* record per separator line of the output, in the order of the separators,
\* each the body the splitter emitted at that separator.
C2_ParseDeliversFifo ==
    (entry = "parse" /\ output_mode = "raw" /\ ret.op = "iter") =>
        /\ Len(ret.val) = Cardinality(SepIdx(read))
        /\ Len(ret.val) = Len(emitted)
        /\ \A k \in 1..Len(ret.val) :
              /\ ret.val[k] = raw_text(emitted[k])
              /\ ret.val[k].of = ExpectedBodies(read)[k]

\* two separators with different bodies, iterated after parse() returned
C2_Witness ==
    /\ entry = "parse"
    /\ output_mode = "raw"
    /\ ret.op = "iter"
    /\ Len(ret.val) = 2
    /\ ret.val[1] # ret.val[2]

\* ------------------------------------------------------------------- C3
\* C3: when the output holds a terminal marker line, the status of the
\* Solutions after the run is the status of the last one in the output.
C3_LastTerminalMarkerWins ==
    (pc = "done" /\ TermIdx(read) # {}) =>
        status = StatusOfMarker(Trimmed(read[Max(TermIdx(read))]))

\* a run with two terminal markers of different status has ended
C3_Witness ==
    /\ pc = "done"
    /\ \E i, j \in TermIdx(read) :
          /\ i < j
          /\ StatusOfMarker(Trimmed(read[i])) # StatusOfMarker(Trimmed(read[j]))
          /\ j = Max(TermIdx(read))
          /\ status = StatusOfMarker(Trimmed(read[j]))

\* ------------------------------------------------------------------- C4
\* C4: a call of parse() whose process output holds no terminal marker line
\* returns a Solutions of status Incomplete, and with empty output one
\* without records.
C4_NoMarkerIsIncomplete ==
    (entry = "parse" /\ pc = "done" /\ TermIdx(read) = {}) =>
        /\ status = INCOMPLETE
        /\ read = <<>> => (n_solns = 0 /\ queue = <<>> /\ solns = <<>>)

\* ------------------------------------------------------------------- C5
\* C5: once the parser status is not Incomplete, no step sets it back to
\* Incomplete.
C5_StatusNeverBackToIncomplete ==
    [][parser_status # INCOMPLETE => parser_status' # INCOMPLETE]_vars

\* a terminal marker has set the status and later lines have been read
C5_Witness ==
    /\ parser_status # INCOMPLETE
    /\ TermIdx(read) # {}
    /\ Max(TermIdx(read)) + 2 <= Len(read)
    /\ SepIdx(read) # {}
    /\ Max(SepIdx(read)) > Max(TermIdx(read))

\* ------------------------------------------------------------------- C6
\* C6 as stated: the status is mutated at most once in a run: after a
\* terminal marker line of this run, no later line changes the status.
C6_AsStated ==
    [][TermIdx(read) # {} => parser_status' = parser_status]_vars

\* C6 amended: the parser status is Incomplete when the parser is made, and
\* it changes only when the splitter reads a terminal marker line, which
\* sets it to the status of that marker; a later terminal marker of the same
\* run changes it again.
C6_OnlyTerminalMarkersSetStatus ==
    /\ parser_status = INCOMPLETE
    /\ [][parser_status' # parser_status =>
            \E line \in Lines :
                /\ read' = Append(read, line)
                /\ Trimmed(line) \in TerminalMarkers
                /\ parser_status' = StatusOfMarker(Trimmed(line))]_vars

\* the run is still going and a second terminal marker has changed the status
C6_Witness ==
    /\ pc = "running"
    /\ Len(read) >= 2
    /\ Trimmed(read[Len(read)]) \in TerminalMarkers
    /\ \E i \in TermIdx(read) :
          /\ i < Len(read)
          /\ StatusOfMarker(Trimmed(read[i])) # parser_status
    /\ parser_status = StatusOfMarker(Trimmed(read[Len(read)]))

\* ------------------------------------------------------------------- C7
\* C7: while the output holds no separator line, the record count is 0 and
\* no call hands out a record, whatever markers and body lines it holds.
C7_NoSeparatorNoRecord ==
    SepIdx(read) = {} =>
        /\ n_solns = 0
        /\ queue = <<>>
        /\ solns = <<>>
        /\ emitted = <<>>
        /\ ret.val = <<>>
        /\ ret.n = 0

\* body lines and a terminal marker but no separator; the run has ended with
\* the body still buffered, and the consumer has iterated
C7_Witness ==
    /\ SepIdx(read) = {}
    /\ TermIdx(read) # {}
    /\ buffer # <<>>
    /\ pc = "done"
    /\ ret.op = "iter"

\* ------------------------------------------------------------------- C8
\* C8: after parse() has returned, length() equals the number of bodies
\* emitted in the run, also when the consumer has not iterated or indexed.
C8_LengthIsBodiesEmitted ==
    (entry = "parse" /\ pc = "done" /\ ret.op = "len") => ret.n = Len(emitted)

\* ------------------------------------------------------------------- C9
\* C9: iterate() on a keeping Solutions whose queue is drained yields the
\* stored records, the same as the iterate() before it, and changes neither
\* the storage nor the count.
C9_IterateIdempotent ==
    [][(ret'.op = "iter" /\ queue = <<>>) =>
          /\ ret'.val = solns
          /\ solns' = solns
          /\ n_solns' = n_solns
          /\ queue' = <<>>
          /\ ret.op = "iter" => ret'.val = ret.val]_vars

\* a keeping Solutions with two records stored and nothing queued has just
\* been iterated
C9_Witness ==
    /\ keep
    /\ queue = <<>>
    /\ ret.op = "iter"
    /\ Len(solns) = 2
    /\ ret.val = solns
    /\ pc = "done"

\* ------------------------------------------------------------------ C10
\* C10: __getitem__ on a Solutions that does not keep raises the usage error
\* for every key, returns no record and leaves queue and count as they were.
C10_GetItemRefusedWithoutKeep ==
    [][(ret'.op = "getitem" /\ ~keep) =>
          /\ ret'.err = "RuntimeError"
          /\ ret'.val = <<>>
          /\ queue' = queue
          /\ n_solns' = n_solns]_vars

\* refused although a record is waiting in the queue
C10_Witness ==
    /\ ~keep
    /\ ret.op = "getitem"
    /\ ret.err = "RuntimeError"
    /\ queue # <<>>

\* ------------------------------------------- what the run has enqueued
\* the record made of a body in the parser's output mode
Convert(b) ==
    IF output_mode = "dict" THEN [kind |-> "dict", of |-> b]
                            ELSE [kind |-> "str", of |-> b]

\* the bodies that got as far as the queue: all that were emitted, but for
\* the one the value-parser rejected
EnqueuedBodies == IF exc = "ValueError" THEN Front(emitted) ELSE emitted

Enqueued == [k \in 1..Len(EnqueuedBodies) |-> Convert(EnqueuedBodies[k])]

\* the lines that reached the splitter: the adapter dropped the others
NotDropped(line) == line # TELEMETRY
SplitterInput == SelectSeq(read, NotDropped)

\* the last line read, when this step has read one
ReadsALine == Len(read') = Len(read) + 1
LineRead == read'[Len(read')]

\* ------------------------------------------------------------------ C11
\* C11: when the value-parser rejects a body, the consumer still gets the
\* Solutions (the failure is left for its iteration or indexing), and the
\* Solutions carries the status and the statistics of the run.
C11_RejectionLeavesStreamWithStatus ==
    exc = "ValueError" =>
        /\ Holds
        /\ status = parser_status
        /\ statistics = "stats"

\* ------------------------------------------------------------------ C12
\* C12: iterate() and index() on a keeping Solutions do not return while the
\* producer is unfinished, so the storage they read holds every record of
\* the run.
C12_KeepingCallsWaitForProducer ==
    (keep /\ ret.op \in {"iter", "getitem"}) =>
        /\ pc # "running"
        /\ solns = Enqueued

\* ------------------------------------------------------------------ C13
\* C13: the producer finishes whatever the consumer does, and when it has
\* finished it has set status, statistics and error text on the Solutions.
C13_ProducerFinishesAndSets ==
    pc # "running" =>
        /\ pc = "done"
        /\ status = parser_status
        /\ statistics = "stats"
        /\ stderr = "stderr_data"

\* ------------------------------------------------------------------ C14
\* the buffer due after the lines ls: the trimmed body lines since the last
\* separator or search-complete marker, in their order
BufferDue(ls) ==
    LET resets == {i \in 1..Len(ls) :
                      Trimmed(ls[i]) \in {SOLN_SEP, SEARCH_COMPLETE}}
        start == IF resets = {} THEN 0 ELSE Max(resets)
        idx == Ascending({i \in (start + 1)..Len(ls) :
                      Trimmed(ls[i]) \notin Markers \cup {<<>>}})
    IN [k \in 1..Len(idx) |-> Trimmed(ls[idx[k]])]

\* C14: the buffer holds no separator, no terminal marker and no empty line:
\* it is the trimmed, non-empty, non-marker lines that reached the splitter
\* since the last reset, in the order they came.
C14_BufferHoldsBodyLines ==
    /\ \A i \in 1..Len(buffer) :
          /\ buffer[i] \notin Markers
          /\ buffer[i] # <<>>
          /\ Trimmed(buffer[i]) = buffer[i]
    /\ buffer = BufferDue(SplitterInput)

\* two body lines are buffered, one read with white space around it, with a
\* terminal marker read on the way
C14_Witness ==
    /\ Len(buffer) = 2
    /\ buffer[1] # buffer[2]
    /\ TermIdx(read) # {}
    /\ \E i \in 1..Len(read) :
          Trimmed(read[i]) \notin Markers /\ read[i] # Trimmed(read[i])

\* ------------------------------------------------------------------ C15
IsPrefix(a, b) == Len(a) <= Len(b) /\ SubSeq(b, 1, Len(a)) = a

\* C15: a separator emits the buffer and resets it; the search-complete
\* marker resets it and emits nothing, so the lines before it are in no
\* later body; the other five terminal markers set the status and leave the
\* buffer, so the lines before them are in the body of the next separator;
\* no other line resets the buffer.
C15_BufferResetOnlyAtSepAndComplete ==
    [][ReadsALine =>
          LET t == Trimmed(LineRead) IN
          /\ emitted' = ExpectedBodies(read')
          /\ CASE t = SOLN_SEP ->
                    /\ buffer' = <<>>
                    /\ emitted' = Append(emitted, join(NL, buffer))
               [] t = SEARCH_COMPLETE ->
                    /\ buffer' = <<>>
                    /\ emitted' = emitted
                    /\ queue' = queue
               [] t \in TerminalMarkers \ {SEARCH_COMPLETE} ->
                    /\ buffer' = buffer
                    /\ emitted' = emitted
                    /\ queue' = queue
                    /\ parser_status' = StatusOfMarker(t)
               [] OTHER ->
                    /\ IsPrefix(buffer, buffer')
                    /\ emitted' = emitted
                    /\ queue' = queue]_vars

\* a line was buffered, search-complete came, and the next separator emitted
\* the empty body
C15_Witness ==
    /\ Len(read) = 3
    /\ Trimmed(read[1]) \notin Markers \cup {<<>>}
    /\ read[1] # TELEMETRY
    /\ Trimmed(read[2]) = SEARCH_COMPLETE
    /\ Trimmed(read[3]) = SOLN_SEP
    /\ emitted = << <<>> >>

\* ------------------------------------------------------------------ C16
IsBlank(line) == Trimmed(line) = <<>>
NotBlank(line) == ~IsBlank(line)
WithoutBlanks(ls) == SelectSeq(ls, NotBlank)

\* C16: a line that is empty once trimmed changes neither buffer nor status
\* and emits nothing; the bodies emitted and the final status are those of
\* the output with such lines left out.
C16_BlankLinesIgnored ==
    /\ [](/\ emitted = ExpectedBodies(WithoutBlanks(read))
          /\ buffer = BufferDue(WithoutBlanks(SplitterInput))
          /\ (pc = "done" /\ TermIdx(WithoutBlanks(read)) # {}) =>
                status = StatusOfMarker(Trimmed(
                    WithoutBlanks(read)[Max(TermIdx(WithoutBlanks(read)))])))
    /\ [][(ReadsALine /\ IsBlank(LineRead)) =>
            /\ buffer' = buffer
            /\ parser_status' = parser_status
            /\ emitted' = emitted
            /\ queue' = queue
            /\ pc' = pc]_vars

\* an empty line came between a body line and its separator, and the body
\* emitted is the body line alone
C16_Witness ==
    /\ Len(read) = 3
    /\ Trimmed(read[1]) \notin Markers \cup {<<>>}
    /\ IsBlank(read[2])
    /\ Trimmed(read[3]) = SOLN_SEP
    /\ emitted = << Trimmed(read[1]) >>

\* ------------------------------------------------------------------ C17
\* C17: when the adapter returns no line for an output line, parsing goes
\* on: the line emits nothing and leaves buffer and status as they were.
C17_DroppedLineIsSkipped ==
    [][(ReadsALine /\ solver_parse_out(LineRead) = NoLine) =>
            /\ pc' = "running"
            /\ buffer' = buffer
            /\ parser_status' = parser_status
            /\ emitted' = emitted
            /\ queue' = queue]_vars

\* ------------------------------------------------------------------ C18
\* C18: on a Solutions that does not keep, the k-th record a generator hands
\* out is the k-th record enqueued, whichever generator it is, so every
\* record is handed out at most once and in FIFO order; nothing is stored;
\* and next() on an empty queue ends the generator without a record.
C18_LazyIterationOneShotFifo ==
    /\ [](~keep =>
            /\ solns = <<>>
            /\ n_solns + Len(queue) = Len(Enqueued)
            /\ \A i \in 1..Len(queue) : queue[i] = Enqueued[n_solns + i]
            /\ (ret.op = "next" /\ ret.err = "") =>
                  ret.val = << Enqueued[n_solns] >>
            /\ (ret.op = "next" /\ ret.err # "") =>
                  (ret.val = <<>> /\ ~gen))
    /\ [][(~keep /\ ret'.op = "next") =>
            IF queue = <<>>
            THEN /\ ret'.err = "StopIteration"
                 /\ n_solns' = n_solns
                 /\ queue' = queue
            ELSE /\ ret'.val = << Head(queue) >>
                 /\ queue' = Tail(queue)
                 /\ n_solns' = n_solns + 1]_vars

\* the second of two different records has just been handed out
C18_Witness ==
    /\ ~keep
    /\ ret.op = "next"
    /\ ret.err = ""
    /\ n_solns = 2
    /\ Len(Enqueued) = 2
    /\ Enqueued[1] # Enqueued[2]

\* ------------------------------------------------------------------ C19
NameShown(st) ==
    CASE st = COMPLETE -> "COMPLETE"
      [] st = INCOMPLETE -> "INCOMPLETE"
      [] st = UNKNOWN_ST -> "UNKNOWN"
      [] st = UNSATISFIABLE_ST -> "UNSATISFIABLE"
      [] st = UNBOUNDED_ST -> "UNBOUNDED"
      [] st = UNSATorUNBOUNDED_ST -> "UNSATorUNBOUNDED"
      [] st = ERROR_ST -> "ERROR"

\* C19: rendering shows the kept records, after a full drain, exactly when
\* the Solutions keeps and its status is Complete or Incomplete; otherwise
\* it shows the status name alone and takes nothing from the queue.
C19_RenderRecordsOrStatusName ==
    [][ret'.op = "render" =>
          IF keep /\ status \in {COMPLETE, INCOMPLETE}
          THEN /\ ret'.val = solns \o queue
               /\ ret'.name = ""
               /\ solns' = solns \o queue
               /\ queue' = <<>>
               /\ n_solns' = n_solns + Len(queue)
          ELSE /\ ret'.name = NameShown(status)
               /\ ret'.val = <<>>
               /\ queue' = queue
               /\ solns' = solns
               /\ n_solns' = n_solns]_vars

\* a keeping Solutions of a run that ended in UNKNOWN has been rendered: the
\* name is shown and the record is still in the queue
C19_Witness ==
    /\ keep
    /\ status = UNKNOWN_ST
    /\ ret.op = "render"
    /\ ret.name = "UNKNOWN"
    /\ queue # <<>>

\* ------------------------------------------------------------------ C20
\* this step does not start on a new Solutions
SameSolutions == ~(pc # "running" /\ pc' = "running")

\* C20: the count is the number of records taken from the queue: count plus
\* queue size is the number enqueued, and the count never decreases; on a
\* keeping Solutions it is the length of the storage, which together with
\* the queue is the records enqueued, and what is stored is never changed.
C20_CountIsRecordsDequeued ==
    /\ [](/\ n_solns + Len(queue) = Len(Enqueued)
          /\ keep => (Len(solns) = n_solns /\ solns \o queue = Enqueued))
    /\ [][SameSolutions =>
            /\ n_solns' >= n_solns
            /\ n_solns' - n_solns = Len(queue) + Len(Enqueued') - Len(Enqueued)
                                        - Len(queue')
            /\ keep => IsPrefix(solns, solns')]_vars

\* a keeping Solutions has stored one record while the next one waits in the
\* queue
C20_Witness ==
    /\ keep
    /\ n_solns = 1
    /\ Len(solns) = 1
    /\ Len(queue) = 1
    /\ solns[1] # queue[1]

====
